---- MODULE Spec2Model ----
(***************************************************************************)
(* Model of project_bundler.py: the forward pass (tree listing followed by *)
(* the concatenated files) and the reverse pass (reconstruction of files   *)
(* from a bundle document).                                                *)
(*                                                                         *)
(* Text is modelled at character level: a Python str is a sequence of      *)
(* one-character strings.  The host is POSIX (os.sep = "/"), files are     *)
(* opened in text mode, and the only line break in the alphabet is "\n".   *)
(***************************************************************************)
EXTENDS Integers, Sequences, FiniteSets, TLC

NL == "\n"

\* ---------------------------------------------------------------------
\* Bounds of the model
\* ---------------------------------------------------------------------
MaxPieces == 3
MaxBody == 3
MaxEntryLines == 2
MaxDirs == 2
MaxFiles == 2

\* ---------------------------------------------------------------------
\* Python str primitives
\* ---------------------------------------------------------------------
StartsWith(s, p) == Len(s) >= Len(p) /\ SubSeq(s, 1, Len(p)) = p

EndsWith(s, p) == Len(s) >= Len(p) /\ SubSeq(s, Len(s) - Len(p) + 1, Len(s)) = p

IsSpace(c) == c \in {" ", NL}

RECURSIVE rstrip(_)
rstrip(s) ==
    IF s # <<>> /\ IsSpace(s[Len(s)]) THEN rstrip(SubSeq(s, 1, Len(s) - 1)) ELSE s

RECURSIVE lstrip(_)
lstrip(s) ==
    IF s # <<>> /\ IsSpace(s[1]) THEN lstrip(Tail(s)) ELSE s

strip(s) == lstrip(rstrip(s))

IndexOfNL(s) ==
    IF \E i \in 1..Len(s) : s[i] = NL
    THEN CHOOSE i \in 1..Len(s) : s[i] = NL /\ \A j \in 1..(i - 1) : s[j] # NL
    ELSE 0

RECURSIVE splitlines(_)
splitlines(s) ==
    IF s = <<>> THEN <<>>
    ELSE LET i == IndexOfNL(s)
         IN  IF i = 0 THEN <<s>>
             ELSE <<SubSeq(s, 1, i - 1)>> \o splitlines(SubSeq(s, i + 1, Len(s)))

RECURSIVE join(_)
join(lines) ==
    IF lines = <<>> THEN <<>>
    ELSE IF Len(lines) = 1 THEN lines[1]
    ELSE lines[1] \o <<NL>> \o join(Tail(lines))

Occurs(s, sub, i) == i + Len(sub) - 1 <= Len(s) /\ SubSeq(s, i, i + Len(sub) - 1) = sub

Contains(s, sub) == \E i \in 1..(Len(s) + 1) : Occurs(s, sub, i)

\* s.rsplit(sub, 1)[0]
rsplit1(s, sub) ==
    IF Contains(s, sub)
    THEN LET i == CHOOSE k \in 1..(Len(s) + 1) :
                      Occurs(s, sub, k) /\ \A m \in (k + 1)..(Len(s) + 1) : ~Occurs(s, sub, m)
         IN  SubSeq(s, 1, i - 1)
    ELSE s

RECURSIVE replace(_, _, _)
replace(s, old, new) ==
    IF s = <<>> THEN <<>>
    ELSE (IF s[1] = old THEN <<new>> ELSE <<s[1]>>) \o replace(Tail(s), old, new)

Lower(c) == IF c = "P" THEN "p" ELSE IF c = "Y" THEN "y" ELSE c

lower(s) == [i \in 1..Len(s) |-> Lower(s[i])]

\* Code points of the characters of the model's alphabet (ordering of str).
Ord(c) ==
    CASE c = NL -> 10 [] c = " " -> 32 [] c = "#" -> 35 [] c = "*" -> 42
      [] c = "-" -> 45 [] c = "." -> 46 [] c = "/" -> 47 [] c = ":" -> 58
      [] c = "?" -> 63 [] c = "E" -> 69 [] c = "F" -> 70 [] c = "P" -> 80
      [] c = "Y" -> 89 [] c = "[" -> 91 [] c = "\\" -> 92 [] c = "]" -> 93
      [] c = "a" -> 97 [] c = "b" -> 98 [] c = "c" -> 99 [] c = "d" -> 100
      [] c = "e" -> 101 [] c = "f" -> 102 [] c = "i" -> 105 [] c = "l" -> 108
      [] c = "n" -> 110 [] c = "o" -> 111 [] c = "p" -> 112 [] c = "r" -> 114
      [] c = "y" -> 121 [] c = "!" -> 33 [] c = "x" -> 120 [] c = "~" -> 126
      [] OTHER -> 127

RECURSIVE StrLess(_, _)
StrLess(a, b) ==
    IF b = <<>> THEN FALSE
    ELSE IF a = <<>> THEN TRUE
    ELSE IF a[1] = b[1] THEN StrLess(Tail(a), Tail(b))
    ELSE Ord(a[1]) < Ord(b[1])

\* sorted(S) for a set of distinct strings
RECURSIVE sorted(_)
sorted(S) ==
    IF S = {} THEN <<>>
    ELSE LET m == CHOOSE x \in S : \A y \in S \ {x} : StrLess(x, y)
         IN  <<m>> \o sorted(S \ {m})

\* ---------------------------------------------------------------------
\* fnmatch.fnmatch(name, pattern) on a POSIX host (normcase is the
\* identity): "*", "?", "[seq]" and "[!seq]"; a "[" without a closing "]"
\* is a literal.  Character ranges ("a-b") are not used by the patterns of
\* the model.
\* ---------------------------------------------------------------------
ClassEnd(p) ==
    LET j0 == IF Len(p) >= 2 /\ p[2] = "!" THEN 3 ELSE 2
        j1 == IF Len(p) >= j0 /\ p[j0] = "]" THEN j0 + 1 ELSE j0
    IN  IF \E j \in j1..Len(p) : p[j] = "]"
        THEN CHOOSE j \in j1..Len(p) : p[j] = "]" /\ \A k \in j1..(j - 1) : p[k] # "]"
        ELSE 0

InClass(c, stuff) ==
    IF stuff[1] = "!"
    THEN \A i \in 2..Len(stuff) : stuff[i] # c
    ELSE \E i \in 1..Len(stuff) : stuff[i] = c

RECURSIVE fnmatch(_, _)
fnmatch(name, pat) ==
    IF pat = <<>> THEN name = <<>>
    ELSE IF pat[1] = "*"
         THEN fnmatch(name, Tail(pat)) \/ (name # <<>> /\ fnmatch(Tail(name), pat))
    ELSE IF pat[1] = "?"
         THEN name # <<>> /\ fnmatch(Tail(name), Tail(pat))
    ELSE IF pat[1] = "[" /\ ClassEnd(pat) > 0
         THEN /\ name # <<>>
              /\ InClass(name[1], SubSeq(pat, 2, ClassEnd(pat) - 1))
              /\ fnmatch(Tail(name), SubSeq(pat, ClassEnd(pat) + 1, Len(pat)))
    ELSE name # <<>> /\ name[1] = pat[1] /\ fnmatch(Tail(name), Tail(pat))

\* is_excluded with the glob test left out
is_excluded_exact(name, exclusions) ==
    \E pattern \in exclusions : name = pattern

is_excluded(name, exclusions) ==
    \E pattern \in exclusions : fnmatch(name, pattern) \/ name = pattern

\* ---------------------------------------------------------------------
\* Literals of the bundle format
\* ---------------------------------------------------------------------
FILE_HEADER == <<"#", " ", "-", "-", "-", " ", "F", "i", "l", "e", ":", " ">>

FILE_FOOTER == <<"#", " ", "-", "-", "-", " ", "E", "n", "d", " ", "o", "f", " ", "F", "i", "l", "e", ":", " ">>

SECTION_HEADER == <<"#", " ", "-", "-", "-", " ", "C", "o", "n", "c", "a", "t", "e", "n", "a", "t", "e", "d", " ", "F", "i", "l", "e", "s", " ", "-", "-", "-">>

CLOSING == <<" ", "-", "-", "-">>

STRUCTURE_HEADER == <<"#", " ", "-", "-", "-", " ", "P", "r", "o", "j", "e", "c", "t", " ", "S", "t", "r", "u", "c", "t", "u", "r", "e", " ", "-", "-", "-">>

BINARY_FILE == <<"b", "i", "n", "a", "r", "y", " ", "f", "i", "l", "e">>

ERROR_LINE == <<"E", "r", "r", "o", "r", " ", "p", "r", "o", "c", "e", "s", "s", "i", "n", "g", " ", "f", "i", "l", "e", ":", " ", "e">>

DOT_PY == <<".", "p", "y">>

\* current_path_str_for_reverse = None
None == <<"None">>

Truthy(p) == p # None /\ p # <<>>

\* ---------------------------------------------------------------------
\* Stripping transforms
\* ---------------------------------------------------------------------
RECURSIVE SelectNonBlank(_)
SelectNonBlank(lines) ==
    IF lines = <<>> THEN <<>>
    ELSE (IF strip(lines[1]) # <<>> THEN <<lines[1]>> ELSE <<>>) \o SelectNonBlank(Tail(lines))

remove_blank_lines(text_content) ==
    LET processed_lines == SelectNonBlank(splitlines(text_content))
    IN  IF processed_lines = <<>> THEN <<>>
        ELSE join(processed_lines) \o <<NL>>

\* tokenize/untokenize on the model's alphabet (no quotes, no brackets):
\* every character of a comment, from "#" to the end of its line, comes
\* back as a blank; line breaks are kept.
RECURSIVE BlankComments(_, _)
BlankComments(s, inComment) ==
    IF s = <<>> THEN <<>>
    ELSE IF s[1] = NL THEN <<NL>> \o BlankComments(Tail(s), FALSE)
    ELSE IF inComment \/ s[1] = "#" THEN <<" ">> \o BlankComments(Tail(s), TRUE)
    ELSE <<s[1]>> \o BlankComments(Tail(s), FALSE)

core_remove_python_comments_tokenize(code_string) == BlankComments(code_string, FALSE)

remove_python_comments(code_string) ==
    remove_blank_lines(core_remove_python_comments_tokenize(code_string))

\* ---------------------------------------------------------------------
\* The directory tree: files maps a path (a sequence of names) to the
\* file's kind and content, dirs is the set of directory paths below the
\* root.
\* ---------------------------------------------------------------------
ChildDirs(t, dp) ==
    {q[Len(q)] : q \in {d \in t.dirs : Len(d) = Len(dp) + 1 /\ SubSeq(d, 1, Len(dp)) = dp}}

ChildFiles(t, dp) ==
    {q[Len(q)] : q \in {f \in DOMAIN t.files : Len(f) = Len(dp) + 1 /\ SubSeq(f, 1, Len(dp)) = dp}}

RECURSIVE WalkDirs(_, _, _, _)
\* os.walk(root_dir, topdown=True) with the pruning and sorting both loops
\* apply: one entry per visited directory, in visiting order.
os_walk(t, exclusions, dp) ==
    LET dirnames == sorted({d \in ChildDirs(t, dp) : ~is_excluded(d, exclusions)})
        filenames == sorted({f \in ChildFiles(t, dp) : ~is_excluded(f, exclusions)})
    IN  <<[dirpath |-> dp, filenames |-> filenames]>> \o WalkDirs(t, exclusions, dp, dirnames)

WalkDirs(t, exclusions, dp, dirnames) ==
    IF dirnames = <<>> THEN <<>>
    ELSE os_walk(t, exclusions, Append(dp, dirnames[1]))
         \o WalkDirs(t, exclusions, dp, Tail(dirnames))

RECURSIVE Spaces(_)
Spaces(n) == IF n = 0 THEN <<>> ELSE <<" ">> \o Spaces(n - 1)

\* os.path.relpath(p, root_dir).replace(os.sep, '/')
RECURSIVE RelPath(_)
RelPath(path) ==
    IF path = <<>> THEN <<".">>
    ELSE IF Len(path) = 1 THEN path[1]
    ELSE path[1] \o <<"/">> \o RelPath(Tail(path))

TreeEntryLines(root_dir, e) ==
    LET level == Len(e.dirpath)
        dirline == IF e.dirpath = <<>>
                   THEN (IF root_dir # <<".">> THEN root_dir \o <<"/">> ELSE <<".", "/">>)
                   ELSE Spaces(4 * level) \o e.dirpath[level] \o <<"/">>
    IN  <<dirline>> \o [i \in 1..Len(e.filenames) |-> Spaces(4 * (level + 1)) \o e.filenames[i]]

RECURSIVE TreeLines(_, _)
TreeLines(root_dir, entries) ==
    IF entries = <<>> THEN <<>>
    ELSE TreeEntryLines(root_dir, entries[1]) \o TreeLines(root_dir, Tail(entries))

generate_tree_structure(root_dir, t, exclusions) ==
    join(TreeLines(root_dir, os_walk(t, exclusions, <<>>)))

RECURSIVE WalkPaths(_)
WalkPaths(entries) ==
    IF entries = <<>> THEN {}
    ELSE {Append(entries[1].dirpath, entries[1].filenames[i]) : i \in 1..Len(entries[1].filenames)}
         \cup WalkPaths(Tail(entries))

\* paths_to_process after the sort by normalised relative path
PathsToProcess(t, exclusions) ==
    LET found == WalkPaths(os_walk(t, exclusions, <<>>))
        keys == sorted({RelPath(p) : p \in found})
    IN  [i \in 1..Len(keys) |-> CHOOSE p \in found : RelPath(p) = keys[i]]

HeaderLine(rel) == FILE_HEADER \o rel \o CLOSING

FooterLine(rel) == FILE_FOOTER \o rel \o CLOSING

\* the text branch without the final-newline check of line 154
TextBody_no_final_newline(content, name, rel_path, args, tokenize_raises) ==
    LET is_python_file == EndsWith(lower(name), DOT_PY)
        attempted == args.strip_python_comments /\ is_python_file
        python_specific_processing_done == attempted /\ ~tokenize_raises
        c1 == IF python_specific_processing_done THEN remove_python_comments(content)
              ELSE content
        c2 == IF args.strip_blank_lines /\ (~is_python_file \/ ~python_specific_processing_done)
              THEN remove_blank_lines(c1) ELSE c1
    IN  [body |-> c2,
         err |-> IF attempted /\ tokenize_raises
                 THEN <<[kind |-> "strip_warning", arg |-> rel_path]>> ELSE <<>>]

\* Lines 128-155: what is written for a file that was read as text, and the
\* warning sent to stderr when the comment stripping raises.
TextBody(content, name, rel_path, args, tokenize_raises) ==
    LET is_python_file == EndsWith(lower(name), DOT_PY)
        attempted == args.strip_python_comments /\ is_python_file
        python_specific_processing_done == attempted /\ ~tokenize_raises
        c1 == IF python_specific_processing_done THEN remove_python_comments(content)
              ELSE content
        c2 == IF args.strip_blank_lines /\ (~is_python_file \/ ~python_specific_processing_done)
              THEN remove_blank_lines(c1) ELSE c1
        tail == IF c2 # <<>> /\ ~EndsWith(c2, <<NL>>) THEN <<NL>> ELSE <<>>
    IN  [body |-> c2 \o tail,
         err |-> IF attempted /\ tokenize_raises
                 THEN <<[kind |-> "strip_warning", arg |-> rel_path]>> ELSE <<>>]

\* the loop body with UnicodeDecodeError caught by the general handler
FileBody_binary_as_error(t, path, args, tokenize_raises) ==
    LET f == t.files[path]
        rel_path == RelPath(path)
    IN  IF f.kind \in {"binary", "unreadable"}
        THEN [body |-> ERROR_LINE \o <<NL>>,
              err |-> <<[kind |-> "process_error", arg |-> rel_path]>>]
        ELSE TextBody(f.content, path[Len(path)], rel_path, args, tokenize_raises)

\* What the body of the per-file loop writes between header and footer, and
\* the diagnostics it sends to stderr.
FileBody(t, path, args, tokenize_raises) ==
    LET f == t.files[path]
        rel_path == RelPath(path)
    IN  IF f.kind = "binary" THEN [body |-> BINARY_FILE \o <<NL>>, err |-> <<>>]
        ELSE IF f.kind = "unreadable"
             THEN [body |-> ERROR_LINE \o <<NL>>,
                   err |-> <<[kind |-> "process_error", arg |-> rel_path]>>]
        ELSE TextBody(f.content, path[Len(path)], rel_path, args, tokenize_raises)

\* ---------------------------------------------------------------------
\* Destinations of the reverse pass.  A location is the lexically
\* normalised os.path.join(target_dir, normalized_path): abs when the
\* header path is absolute (join then drops target_dir), up the number of
\* ".." steps that climb above target_dir, segs the remaining segments.
\* ---------------------------------------------------------------------
RECURSIVE SplitSlash(_, _)
SplitSlash(s, cur) ==
    IF s = <<>> THEN <<cur>>
    ELSE IF s[1] = "/" THEN <<cur>> \o SplitSlash(Tail(s), <<>>)
    ELSE SplitSlash(Tail(s), Append(cur, s[1]))

RECURSIVE Resolve(_, _)
Resolve(segs, loc) ==
    IF segs = <<>> THEN loc
    ELSE LET g == segs[1]
             next == IF g = <<>> \/ g = <<".">> THEN loc
                     ELSE IF g = <<".", ".">>
                          THEN (IF loc.segs # <<>>
                                THEN [loc EXCEPT !.segs = SubSeq(loc.segs, 1, Len(loc.segs) - 1)]
                                ELSE IF loc.abs THEN loc
                                ELSE [loc EXCEPT !.up = loc.up + 1])
                     ELSE [loc EXCEPT !.segs = Append(loc.segs, g)]
         IN  Resolve(Tail(segs), next)

normalized_path(path) == replace(replace(path, "/", "/"), "\\", "/")

Dest(path) ==
    LET n == normalized_path(path)
    IN  Resolve(SplitSlash(n, <<>>), [abs |-> n[1] = "/", up |-> 0, segs |-> <<>>])

\* Directories os.makedirs(os.path.dirname(dest), exist_ok=True) walks
\* through, outermost first.
ParentDirs(path) ==
    LET n == normalized_path(path)
        raw == SplitSlash(n, <<>>)
        start == [abs |-> n[1] = "/", up |-> 0, segs |-> <<>>]
    IN  [i \in 1..(Len(raw) - 1) |-> Resolve(SubSeq(raw, 1, i), start)]

Inside(loc) == ~loc.abs /\ loc.up = 0

\* the flush without the final newline
WriteText_as_joined(buffer) == join(buffer)

\* '\n'.join(buffer) as written by the flush
WriteText(buffer) ==
    LET content_to_write == join(buffer)
    IN  IF content_to_write = BINARY_FILE /\ Len(buffer) = 1 THEN BINARY_FILE \o <<NL>>
        ELSE content_to_write
             \o (IF content_to_write # <<>> /\ ~EndsWith(content_to_write, <<NL>>)
                 THEN <<NL>> ELSE <<>>)

\* the flush with a write failure left unreported
flush_silent_write_error(cp, buf, files, directories, err, fail_mkdir, fail_write) ==
    IF ~Truthy(cp)
    THEN [path |-> cp, fs |-> files, dirs |-> directories, stderr |-> err]
    ELSE
      LET dest == Dest(cp)
          parents == ParentDirs(cp)
          blocked == {i \in 1..Len(parents) : parents[i] \in DOMAIN files}
          firstBlocked == CHOOSE i \in blocked : \A j \in blocked : i <= j
          made == {parents[i] : i \in 1..Len(parents)}
          isDir == dest.segs = <<>> \/ dest \in directories \/ dest \in made
      IN  IF cp \in fail_mkdir
          THEN [path |-> None, fs |-> files, dirs |-> directories,
                stderr |-> Append(err, [kind |-> "mkdir_error", arg |-> cp])]
          ELSE IF blocked # {}
          THEN [path |-> None, fs |-> files,
                dirs |-> directories \cup {parents[i] : i \in 1..(firstBlocked - 1)},
                stderr |-> Append(err, [kind |-> "mkdir_error", arg |-> cp])]
          ELSE IF isDir \/ cp \in fail_write
          THEN [path |-> None, fs |-> files, dirs |-> directories \cup made,
                stderr |-> err]
          ELSE [path |-> None,
                fs |-> [l \in DOMAIN files \cup {dest} |->
                           IF l = dest THEN WriteText(buf) ELSE files[l]],
                dirs |-> directories \cup made, stderr |-> err]

\* the flush that leaves the path set after a successful write
flush_keeps_path(cp, buf, files, directories, err, fail_mkdir, fail_write) ==
    IF ~Truthy(cp)
    THEN [path |-> cp, fs |-> files, dirs |-> directories, stderr |-> err]
    ELSE
      LET dest == Dest(cp)
          parents == ParentDirs(cp)
          blocked == {i \in 1..Len(parents) : parents[i] \in DOMAIN files}
          firstBlocked == CHOOSE i \in blocked : \A j \in blocked : i <= j
          made == {parents[i] : i \in 1..Len(parents)}
          isDir == dest.segs = <<>> \/ dest \in directories \/ dest \in made
      IN  IF cp \in fail_mkdir
          THEN [path |-> None, fs |-> files, dirs |-> directories,
                stderr |-> Append(err, [kind |-> "mkdir_error", arg |-> cp])]
          ELSE IF blocked # {}
          THEN [path |-> None, fs |-> files,
                dirs |-> directories \cup {parents[i] : i \in 1..(firstBlocked - 1)},
                stderr |-> Append(err, [kind |-> "mkdir_error", arg |-> cp])]
          ELSE IF isDir \/ cp \in fail_write
          THEN [path |-> None, fs |-> files, dirs |-> directories \cup made,
                stderr |-> Append(err, [kind |-> "write_error", arg |-> cp])]
          ELSE [path |-> cp,
                fs |-> [l \in DOMAIN files \cup {dest} |->
                           IF l = dest THEN WriteText(buf) ELSE files[l]],
                dirs |-> directories \cup made, stderr |-> err]

\* _flush_current_file_for_reverse: the new current path, files,
\* directories and stderr.
flush_current_file_for_reverse(cp, buf, files, directories, err, fail_mkdir, fail_write) ==
    IF ~Truthy(cp)
    THEN [path |-> cp, fs |-> files, dirs |-> directories, stderr |-> err]
    ELSE
      LET dest == Dest(cp)
          parents == ParentDirs(cp)
          blocked == {i \in 1..Len(parents) : parents[i] \in DOMAIN files}
          firstBlocked == CHOOSE i \in blocked : \A j \in blocked : i <= j
          made == {parents[i] : i \in 1..Len(parents)}
          isDir == dest.segs = <<>> \/ dest \in directories \/ dest \in made
      IN  IF cp \in fail_mkdir
          THEN [path |-> None, fs |-> files, dirs |-> directories,
                stderr |-> Append(err, [kind |-> "mkdir_error", arg |-> cp])]
          ELSE IF blocked # {}
          THEN [path |-> None, fs |-> files,
                dirs |-> directories \cup {parents[i] : i \in 1..(firstBlocked - 1)},
                stderr |-> Append(err, [kind |-> "mkdir_error", arg |-> cp])]
          ELSE IF isDir \/ cp \in fail_write
          THEN [path |-> None, fs |-> files, dirs |-> directories \cup made,
                stderr |-> Append(err, [kind |-> "write_error", arg |-> cp])]
          ELSE [path |-> None,
                fs |-> [l \in DOMAIN files \cup {dest} |->
                           IF l = dest THEN WriteText(buf) ELSE files[l]],
                dirs |-> directories \cup made, stderr |-> err]

\* The test of line 233
IsFileHeader(line) == StartsWith(line, FILE_HEADER) /\ EndsWith(rstrip(line), CLOSING)

\* the footer test as an equality with the prefix
IsFileFooter_equal(line) == line = FILE_FOOTER

IsFileFooter(line) == StartsWith(line, FILE_FOOTER)

\* the search starting from start_idx = 0
SectionIndex_from_zero(all_lines) ==
    IF \E i \in 1..Len(all_lines) : strip(all_lines[i]) = SECTION_HEADER
    THEN CHOOSE i \in 1..Len(all_lines) :
             /\ strip(all_lines[i]) = SECTION_HEADER
             /\ \A j \in 1..(i - 1) : strip(all_lines[j]) # SECTION_HEADER
    ELSE 1

\* 1-based index of the first line that is the section header once
\* stripped, 0 when there is none (start_idx + 1 of the source).
SectionIndex(all_lines) ==
    IF \E i \in 1..Len(all_lines) : strip(all_lines[i]) = SECTION_HEADER
    THEN CHOOSE i \in 1..Len(all_lines) :
             /\ strip(all_lines[i]) = SECTION_HEADER
             /\ \A j \in 1..(i - 1) : strip(all_lines[j]) # SECTION_HEADER
    ELSE 0

\* ---------------------------------------------------------------------
\* State
\* ---------------------------------------------------------------------
VARIABLES
    pc,               \* position of the run
    root_dir,         \* --root of the forward run
    tree,             \* the directory tree under root_dir
    exclusions,       \* patterns loaded by load_exclusions
    args,             \* the two stripping toggles
    tokenize_raises,  \* whether tokenize raises on the .py files of this run
    output,           \* text of the output file
    paths_to_process, \* files still to be concatenated
    records,          \* file records emitted so far: path and body
    stderr,           \* diagnostics written to stderr
    input,            \* text of the input file of the reverse run
    target,           \* the target root: "absent", "dir", "file" or "uncreatable"
    content_lines,    \* lines scanned by the reverse loop
    line_no,          \* next line of content_lines to scan
    current_path,     \* current_path_str_for_reverse
    buffer,           \* buffer_for_reverse
    fs,               \* files written by the reverse run: location -> text
    dirs,             \* directories created by the reverse run
    fail_mkdir,       \* header paths whose os.makedirs raises OSError
    fail_write        \* header paths whose open/write raises IOError

vars == <<pc, root_dir, tree, exclusions, args, tokenize_raises, output,
          paths_to_process, records, stderr, input, target, content_lines,
          line_no, current_path, buffer, fs, dirs, fail_mkdir, fail_write>>

fwdVars == <<root_dir, tree, exclusions, args, tokenize_raises>>

revVars == <<input, target, content_lines, line_no, current_path, buffer, fs, dirs>>

envVars == <<fail_mkdir, fail_write>>

EmptyFs == [l \in {} |-> <<>>]

\* ---------------------------------------------------------------------
\* Forward run
\* ---------------------------------------------------------------------
\* main, forward branch: header of the structure section and the tree text
MainForward ==
    /\ pc = "main_forward"
    /\ output' = STRUCTURE_HEADER \o <<NL, NL>>
                 \o generate_tree_structure(root_dir, tree, exclusions)
    /\ pc' = "concatenate"
    /\ UNCHANGED <<fwdVars, revVars, envVars, paths_to_process, records, stderr>>

\* concatenate_files up to the sort of paths_to_process
ConcatBegin ==
    /\ pc = "concatenate"
    /\ output' = output \o <<NL, NL>> \o SECTION_HEADER \o <<NL, NL>>
    /\ paths_to_process' = PathsToProcess(tree, exclusions)
    /\ pc' = "files"
    /\ UNCHANGED <<fwdVars, revVars, envVars, records, stderr>>

\* one iteration of the loop over paths_to_process
ConcatFile ==
    /\ pc = "files"
    /\ paths_to_process # <<>>
    /\ LET full_path == paths_to_process[1]
           rel_path_header == RelPath(full_path)
           r == FileBody(tree, full_path, args, tokenize_raises)
       IN  /\ output' = output \o HeaderLine(rel_path_header) \o <<NL>> \o r.body
                        \o FooterLine(rel_path_header) \o <<NL, NL>>
           /\ records' = Append(records, [path |-> full_path, body |-> r.body])
           /\ stderr' = stderr \o r.err
    /\ paths_to_process' = Tail(paths_to_process)
    /\ UNCHANGED <<pc, fwdVars, revVars, envVars>>

\* end of the forward run; the bundle is then handed to a reverse run
ForwardDone ==
    /\ pc = "files"
    /\ paths_to_process = <<>>
    /\ pc' = "main_reverse"
    /\ input' = output
    /\ UNCHANGED <<fwdVars, envVars, output, paths_to_process, records, stderr,
                   target, content_lines, line_no, current_path, buffer, fs, dirs>>

\* ---------------------------------------------------------------------
\* Reverse run
\* ---------------------------------------------------------------------
\* main, reverse branch: checks and creates the target root
MainReverse ==
    /\ pc = "main_reverse"
    /\ IF target = "file"
       THEN /\ stderr' = Append(stderr, [kind |-> "target_not_directory", arg |-> <<>>])
            /\ pc' = "exit_1"
            /\ UNCHANGED target
       ELSE IF target = "uncreatable"
       THEN /\ stderr' = Append(stderr, [kind |-> "target_create_error", arg |-> <<>>])
            /\ pc' = "exit_1"
            /\ UNCHANGED target
       ELSE /\ target' = IF target = "absent" THEN "created" ELSE target
            /\ pc' = "reverse_mode"
            /\ UNCHANGED stderr
    /\ UNCHANGED <<fwdVars, envVars, output, paths_to_process, records, input,
                   content_lines, line_no, current_path, buffer, fs, dirs>>

\* reverse_mode up to the loop: read, splitlines, locate the section header
ReverseBegin ==
    /\ pc = "reverse_mode"
    /\ LET all_lines == splitlines(input)
           k == SectionIndex(all_lines)
       IN  IF k = 0
           THEN /\ stderr' = Append(stderr, [kind |-> "missing_section", arg |-> <<>>])
                /\ pc' = "done"
                /\ UNCHANGED content_lines
           ELSE /\ content_lines' = SubSeq(all_lines, k + 2, Len(all_lines))
                /\ pc' = "scan"
                /\ UNCHANGED stderr
    /\ current_path' = None
    /\ buffer' = <<>>
    /\ line_no' = 1
    /\ UNCHANGED <<fwdVars, envVars, output, paths_to_process, records, input,
                   target, fs, dirs>>

\* one iteration of the loop over content_lines
ReverseLine ==
    /\ pc = "scan"
    /\ line_no <= Len(content_lines)
    /\ LET line == content_lines[line_no]
           fl == flush_current_file_for_reverse(current_path, buffer, fs, dirs, stderr,
                                                fail_mkdir, fail_write)
           path_extract_part == SubSeq(line, Len(FILE_HEADER) + 1, Len(line))
       IN  IF IsFileHeader(line)
           THEN /\ fs' = fl.fs
                /\ dirs' = fl.dirs
                /\ IF Contains(path_extract_part, CLOSING)
                   THEN /\ current_path' = strip(rsplit1(path_extract_part, CLOSING))
                        /\ stderr' = fl.stderr
                   ELSE /\ current_path' = None
                        /\ stderr' = Append(fl.stderr,
                                            [kind |-> "malformed_header", arg |-> line])
                /\ buffer' = <<>>
           ELSE IF IsFileFooter(line)
           THEN /\ fs' = fl.fs
                /\ dirs' = fl.dirs
                /\ current_path' = fl.path
                /\ stderr' = fl.stderr
                /\ buffer' = <<>>
           ELSE /\ buffer' = IF Truthy(current_path) THEN Append(buffer, line) ELSE buffer
                /\ UNCHANGED <<fs, dirs, current_path, stderr>>
    /\ line_no' = line_no + 1
    /\ UNCHANGED <<pc, fwdVars, envVars, output, paths_to_process, records, input,
                   target, content_lines>>

\* the flush after the loop
ReverseEnd ==
    /\ pc = "scan"
    /\ line_no > Len(content_lines)
    /\ LET fl == flush_current_file_for_reverse(current_path, buffer, fs, dirs, stderr,
                                                fail_mkdir, fail_write)
       IN  /\ fs' = fl.fs
           /\ dirs' = fl.dirs
           /\ current_path' = fl.path
           /\ stderr' = fl.stderr
    /\ pc' = "done"
    /\ UNCHANGED <<fwdVars, envVars, output, paths_to_process, records, input,
                   target, content_lines, line_no, buffer>>

Next ==
    \/ MainForward
    \/ ConcatBegin
    \/ ConcatFile
    \/ ForwardDone
    \/ MainReverse
    \/ ReverseBegin
    \/ ReverseLine
    \/ ReverseEnd

NextReverse ==
    \/ MainReverse
    \/ ReverseBegin
    \/ ReverseLine
    \/ ReverseEnd

\* ---------------------------------------------------------------------
\* Inputs
\* ---------------------------------------------------------------------
BoundedSeq(S, n) == UNION {[1..k -> S] : k \in 0..n}

RECURSIVE Concat(_)
Concat(ss) == IF ss = <<>> THEN <<>> ELSE ss[1] \o Concat(Tail(ss))

ProperPrefixes(path) == {SubSeq(path, 1, i) : i \in 1..(Len(path) - 1)}

\* the tree holding the listed files (kind and content by position)
MkTree(paths, kinds, contents, extraDirs) ==
    [files |-> [q \in {paths[i] : i \in 1..Len(paths)} |->
                   LET i == CHOOSE k \in 1..Len(paths) : paths[k] = q
                   IN  [kind |-> kinds[i], content |-> contents[i]]],
     dirs |-> extraDirs \cup UNION {ProperPrefixes(paths[i]) : i \in 1..Len(paths)}]

NoArgs == [strip_python_comments |-> FALSE, strip_blank_lines |-> FALSE]

AllArgs == [strip_python_comments : BOOLEAN, strip_blank_lines : BOOLEAN]

InitForward ==
    /\ pc = "main_forward"
    /\ output = <<>>
    /\ paths_to_process = <<>>
    /\ records = <<>>
    /\ stderr = <<>>
    /\ input = <<>>
    /\ content_lines = <<>>
    /\ line_no = 1
    /\ current_path = None
    /\ buffer = <<>>
    /\ fs = EmptyFs
    /\ dirs = {}

InitReverse ==
    /\ pc = "main_reverse"
    /\ root_dir = <<".">>
    /\ tree = MkTree(<<>>, <<>>, <<>>, {})
    /\ exclusions = {}
    /\ args = NoArgs
    /\ tokenize_raises = FALSE
    /\ output = <<>>
    /\ paths_to_process = <<>>
    /\ records = <<>>
    /\ stderr = <<>>
    /\ content_lines = <<>>
    /\ line_no = 1
    /\ current_path = None
    /\ buffer = <<>>
    /\ fs = EmptyFs
    /\ dirs = {}

P_a == <<<<"a">>>>

P_db == <<<<"d">>, <<"b", ".", "p", "y">>>>

P_dB == <<<<"d">>, <<"b", ".", "P", "Y">>>>

P_dea == <<<<"d">>, <<"e">>, <<"a">>>>

\* --- round trip: text and binary files, no exclusion, no stripping ------
RTPieces == {<<"a">>, <<NL>>, <<" ">>, FILE_FOOTER, HeaderLine(<<"x">>)}

RTPathLists == {<<P_a>>, <<P_db>>, <<P_a, P_db>>, <<P_db, P_dea>>}

\* contents of the files of a list: a sequence of pieces cut in two
SplitContents(n, pieces) ==
    IF n = 1 THEN {<<Concat(ps)>> : ps \in BoundedSeq(pieces, MaxPieces)}
    ELSE UNION {{<<Concat(SubSeq(ps, 1, c)), Concat(SubSeq(ps, c + 1, Len(ps)))>> :
                    c \in 0..Len(ps)} : ps \in BoundedSeq(pieces, MaxPieces)}

\* a file is binary only where its text would be empty
KindChoices(contents) ==
    {ks \in [1..Len(contents) -> {"text", "binary"}] :
        \A i \in 1..Len(contents) : ks[i] = "binary" => contents[i] = <<>>}

InitRT ==
    /\ InitForward
    /\ root_dir = <<".">>
    /\ exclusions = {}
    /\ args = NoArgs
    /\ tokenize_raises = FALSE
    /\ target = "absent"
    /\ fail_mkdir = {}
    /\ fail_write = {}
    /\ \E paths \in RTPathLists :
         \E contents \in SplitContents(Len(paths), RTPieces) :
           \E kinds \in KindChoices(contents) :
             tree = MkTree(paths, kinds, contents, {})

\* --- stripping: one text file, every toggle -------------------------------
StripPieces == {<<"a">>, <<NL>>, <<" ">>, <<"#">>}

InitStrip ==
    /\ InitForward
    /\ root_dir = <<".">>
    /\ exclusions = {}
    /\ args \in AllArgs
    /\ tokenize_raises \in BOOLEAN
    /\ target = "dir"
    /\ fail_mkdir = {}
    /\ fail_write = {}
    /\ \E paths \in {<<P_a>>, <<P_dB>>} :
         \E contents \in SplitContents(1, StripPieces) :
           tree = MkTree(paths, <<"text">>, contents, {})

\* --- recovered errors: unreadable files, failing writes -------------------
ErrContent == <<"a", " ", "#", "a", NL, NL>>

InitErr ==
    /\ InitForward
    /\ root_dir = <<".">>
    /\ exclusions = {}
    /\ args \in AllArgs
    /\ tokenize_raises \in BOOLEAN
    /\ target = "dir"
    /\ fail_mkdir \in SUBSET {RelPath(P_dB)}
    /\ fail_write \in SUBSET {RelPath(P_a), RelPath(P_dB)}
    /\ \E kinds \in [1..2 -> {"text", "binary", "unreadable"}] :
         tree = MkTree(<<P_a, P_dB>>, kinds, <<ErrContent, ErrContent>>, {})

\* --- exclusions: tree shapes and patterns ---------------------------------
DirNames == {<<"d">>, <<"e">>}

FileNames == {<<"a">>, <<"b", ".", "p", "y">>}

Patterns ==
    {<<"a">>, <<"*", ".", "p", "y">>, <<"d">>, <<"e">>, <<"?">>, <<"[", "!", "a", "]">>,
     <<"b", "*">>, <<"[", "a">>}

ExclusionSets ==
    {{}} \cup {{pt} : pt \in Patterns} \cup {{<<"d">>, <<"*", ".", "p", "y">>}}

DirPaths == UNION {[1..k -> DirNames] : k \in 1..MaxDirs}

DirSets ==
    {D \in SUBSET DirPaths :
        Cardinality(D) <= MaxDirs /\ \A d \in D : ProperPrefixes(d) \subseteq D}

FileSets(D) ==
    {F \in SUBSET {Append(d, n) : d \in D \cup {<<>>}, n \in FileNames} :
        Cardinality(F) <= MaxFiles}

InitExcl ==
    /\ InitForward
    /\ root_dir \in {<<".">>, <<"p">>}
    /\ exclusions \in ExclusionSets
    /\ args = NoArgs
    /\ tokenize_raises = FALSE
    /\ target = "dir"
    /\ fail_mkdir = {}
    /\ fail_write = {}
    /\ \E D \in DirSets :
         \E F \in FileSets(D) :
           tree = [files |-> [q \in F |-> [kind |-> "text", content |-> <<"a", NL>>]],
                   dirs |-> D]

\* --- reverse run on arbitrary documents -----------------------------------
Preludes ==
    {<<SECTION_HEADER, <<>>>>,
     <<SECTION_HEADER>>,
     <<<<"a", "/">>, <<" ", " ">> \o SECTION_HEADER \o <<" ">>, <<>>>>,
     <<STRUCTURE_HEADER, <<>>>>}

LinePool ==
    {HeaderLine(<<"a">>),
     HeaderLine(<<".", ".", "/", "x">>),
     HeaderLine(<<"/", "d", "\\", "x">>),
     FILE_HEADER \o <<"b">>,
     FILE_HEADER \o <<"-", "-", "-">>,
     FooterLine(<<"a">>),
     <<"x">>,
     BINARY_FILE}

InitDoc ==
    /\ InitReverse
    /\ target \in {"absent", "dir", "file", "uncreatable"}
    /\ fail_mkdir = {}
    /\ fail_write = {}
    /\ \E pre \in Preludes :
         \E body \in BoundedSeq(LinePool, MaxBody) :
           input = Concat([i \in 1..Len(pre \o body) |-> (pre \o body)[i] \o <<NL>>])

\* --- reverse run on a bundle with one corrupted file header ---------------
EntryPaths == <<<<"a">>, <<"b", ".", "p", "y">>, <<"d", "/", "a">>>>

EntryLinePool == {<<"x">>, <<>>}

Corruptions == {"no_closing", "bad_prefix", "no_path", "empty_path", "garbled_path"}

Corrupt(kind, rel) ==
    CASE kind = "no_closing" -> FILE_HEADER \o rel
      [] kind = "bad_prefix" -> Tail(HeaderLine(rel))
      [] kind = "no_path" -> FILE_HEADER \o <<"-", "-", "-">>
      [] kind = "empty_path" -> FILE_HEADER \o CLOSING
      [] kind = "garbled_path" -> HeaderLine(rel \o <<"~">>)

EntryLines(rel, body, kind) ==
    <<IF kind = "intact" THEN HeaderLine(rel) ELSE Corrupt(kind, rel)>>
    \o body \o <<FooterLine(rel), <<>>>>

BundlePrelude == <<STRUCTURE_HEADER, <<>>, <<".", "/">>, <<>>, SECTION_HEADER, <<>>>>

InitCorrupt ==
    /\ InitReverse
    /\ target = "dir"
    /\ fail_mkdir = {}
    /\ fail_write = {}
    /\ \E present \in {S \in SUBSET (1..Len(EntryPaths)) : Cardinality(S) >= 2} :
         \E bodies \in [present -> BoundedSeq(EntryLinePool, MaxEntryLines)] :
           \E bad \in present :
             \E kind \in Corruptions :
               LET entry(i) == IF i \in present
                               THEN EntryLines(EntryPaths[i], bodies[i],
                                               IF i = bad THEN kind ELSE "intact")
                               ELSE <<>>
                   lines == BundlePrelude \o entry(1) \o entry(2) \o entry(3)
               IN  input = Concat([i \in 1..Len(lines) |-> lines[i] \o <<NL>>])

SpecRT == InitRT /\ [][Next]_vars

SpecStrip == InitStrip /\ [][Next]_vars

SpecErr == InitErr /\ [][Next]_vars

SpecExcl == InitExcl /\ [][Next]_vars

SpecDoc == InitDoc /\ [][NextReverse]_vars

SpecCorrupt == InitCorrupt /\ [][NextReverse]_vars

\* =====================================================================
\* Properties
\* =====================================================================
RECURSIVE TrailingNewlines(_)
TrailingNewlines(s) ==
    IF s # <<>> /\ s[Len(s)] = NL THEN 1 + TrailingNewlines(SubSeq(s, 1, Len(s) - 1)) ELSE 0

Range(q) == {q[i] : i \in 1..Len(q)}

OutputLines == splitlines(output)

ForwardFinished == pc \notin {"main_forward", "concatenate", "files"}

TargetLoc(path) == [abs |-> FALSE, up |-> 0, segs |-> path]

\* --- reading the tree listing back from the output ------------------------
ListingLines(out) ==
    LET k == IF \E i \in 1..Len(out) : out[i] = SECTION_HEADER
             THEN CHOOSE i \in 1..Len(out) : out[i] = SECTION_HEADER
             ELSE Len(out) + 1
    IN  SubSeq(out, 3, k - 1)

Indent(line) == Len(line) - Len(lstrip(line))

IsDirLine(line) == line # <<>> /\ line[Len(line)] = "/"

ParentIdx(ls, i) ==
    CHOOSE j \in 1..(i - 1) :
        /\ IsDirLine(ls[j]) /\ Indent(ls[j]) = Indent(ls[i]) - 4
        /\ \A m \in (j + 1)..(i - 1) : ~(IsDirLine(ls[m]) /\ Indent(ls[m]) = Indent(ls[i]) - 4)

RECURSIVE ListedPath(_, _)
ListedPath(ls, i) ==
    IF Indent(ls[i]) = 0 THEN <<>>
    ELSE LET shown == lstrip(ls[i])
             name == IF IsDirLine(shown) THEN SubSeq(shown, 1, Len(shown) - 1) ELSE shown
         IN  Append(ListedPath(ls, ParentIdx(ls, i)), name)

ListedFiles(ls) ==
    {ListedPath(ls, i) : i \in {k \in 1..Len(ls) : ls[k] # <<>> /\ ~IsDirLine(ls[k])}}

ListedDirs(ls) ==
    {ListedPath(ls, i) : i \in {k \in 1..Len(ls) : IsDirLine(ls[k])}}

NameMatches(name) == \E pt \in exclusions : name = pt \/ fnmatch(name, pt)

\* the file or directory itself, or a directory above it, has an excluded name
Hidden(path) == \E i \in 1..Len(path) : NameMatches(path[i])

\* C2: a file whose bare name equals or glob-matches an exclusion pattern,
\* and every file or directory below a directory with such a name, appears
\* neither in the tree listing nor as a file record of the concatenated
\* section.
C2_ExclusionCorrectness ==
    LET out == OutputLines
        listing == ListingLines(out)
        files == ListedFiles(listing)
        directories == ListedDirs(listing)
        headers == Range(out)
    IN  /\ \A f \in DOMAIN tree.files :
             Hidden(f) =>
               /\ f \notin files
               /\ HeaderLine(RelPath(f)) \notin headers
               /\ \A i \in 1..Len(records) : records[i].path # f
        /\ \A d \in tree.dirs : Hidden(d) => d \notin directories

C2_Witness ==
    /\ pc = "main_reverse"
    /\ \E f \in DOMAIN tree.files : Len(f) = 3 /\ NameMatches(f[2]) /\ ~NameMatches(f[3])
    /\ \E g \in DOMAIN tree.files :
         /\ g \in ListedFiles(ListingLines(OutputLines))
         /\ \E i \in 1..Len(records) : records[i].path = g

\* --- round trip -------------------------------------------------------------
AllText == \A f \in DOMAIN tree.files : tree.files[f].kind = "text"

HeaderShaped(line) == StartsWith(line, FILE_HEADER) /\ EndsWith(rstrip(line), CLOSING)

FooterShaped(line) == StartsWith(line, FILE_FOOTER)

ReadsAsMarker(line) == HeaderShaped(line) \/ FooterShaped(line)

NoMarkerLines ==
    \A f \in DOMAIN tree.files :
        \A line \in Range(splitlines(tree.files[f].content)) : ~ReadsAsMarker(line)

SamePaths == DOMAIN fs = {TargetLoc(f) : f \in DOMAIN tree.files}

C8_BinaryHandling ==
    \A f \in DOMAIN tree.files :
        tree.files[f].kind = "binary" =>
          /\ \A i \in 1..Len(records) :
               records[i].path = f => records[i].body = BINARY_FILE \o <<NL>>
          /\ ForwardFinished =>
               /\ \E i \in 1..Len(records) : records[i].path = f
               /\ \E k \in 1..(Len(OutputLines) - 2) :
                    /\ OutputLines[k] = HeaderLine(RelPath(f))
                    /\ OutputLines[k + 1] = BINARY_FILE
                    /\ OutputLines[k + 2] = FooterLine(RelPath(f))
          /\ pc = "done" =>
               /\ TargetLoc(f) \in DOMAIN fs
               /\ fs[TargetLoc(f)] = BINARY_FILE \o <<NL>>

C8_Witness ==
    /\ pc = "done"
    /\ \E f \in DOMAIN tree.files :
         /\ tree.files[f].kind = "binary"
         /\ Len(f) = 2
         /\ fs[TargetLoc(f)] = BINARY_FILE \o <<NL>>
    /\ \E g \in DOMAIN tree.files : tree.files[g].kind = "text" /\ tree.files[g].content # <<>>

\* --- trailing newline of a record -------------------------------------------
IsPython(path) == EndsWith(lower(path[Len(path)]), DOT_PY)

StrippingApplied(path) ==
    \/ args.strip_blank_lines
    \/ (args.strip_python_comments /\ IsPython(path) /\ ~tokenize_raises)

\* C5 as stated: the content of every record ends with exactly one newline.
C5_ExactlyOneNewline ==
    \A i \in 1..Len(records) : TrailingNewlines(records[i].body) = 1

\* C5, amended: the content of a record is empty when the content left after
\* stripping is empty, and otherwise ends with a newline; it ends with exactly
\* one newline unless nothing was stripped and the original content itself
\* ended with two or more newlines.
C5_TrailingNewline ==
    \A i \in 1..Len(records) :
        LET r == records[i]
            f == tree.files[r.path]
        IN  /\ r.body = <<>> \/ TrailingNewlines(r.body) >= 1
            /\ f.kind # "text" => TrailingNewlines(r.body) = 1
            /\ (f.kind = "text" /\ ~StrippingApplied(r.path))
                  => /\ (r.body = <<>>) = (f.content = <<>>)
                     /\ (f.content # <<>> /\ TrailingNewlines(f.content) <= 1)
                           => TrailingNewlines(r.body) = 1
            /\ (f.kind = "text" /\ StrippingApplied(r.path) /\ r.body # <<>>)
                  => TrailingNewlines(r.body) = 1

C5_Witness ==
    /\ Len(records) = 1
    /\ args.strip_blank_lines
    /\ TrailingNewlines(tree.files[records[1].path].content) >= 2
    /\ Len(records[1].body) = 2
    /\ TrailingNewlines(records[1].body) = 1

\* --- diagnostics of recovered errors ----------------------------------------
StderrNames(kinds, arg) ==
    \E i \in 1..Len(stderr) : stderr[i].kind \in kinds /\ stderr[i].arg = arg

StripFails(path) ==
    /\ tree.files[path].kind = "text"
    /\ args.strip_python_comments /\ IsPython(path) /\ tokenize_raises

\* the flush of the record opened by line h of content_lines has run
Flushed(h) ==
    \/ pc = "done"
    \/ \E j \in (h + 1)..(line_no - 1) : ReadsAsMarker(content_lines[j])

DecodeDiagnosed ==
    \A h \in 1..(line_no - 1) :
        \A p \in fail_mkdir \cup fail_write :
            (pc \in {"scan", "done"} /\ content_lines[h] = HeaderLine(p) /\ Flushed(h))
                => StderrNames({"mkdir_error", "write_error"}, p)

\* C7 as stated: each file whose read fails (text-decode failure included) or
\* whose comment stripping fails, and each record whose directory creation or
\* write fails, has a diagnostic on stderr once processing has moved on.
C7_EveryErrorDiagnosed ==
    /\ \A i \in 1..Len(records) :
         LET f == records[i].path
         IN  (tree.files[f].kind \in {"binary", "unreadable"} \/ StripFails(f))
                => StderrNames({"process_error", "strip_warning"}, RelPath(f))
    /\ DecodeDiagnosed

\* C7, amended: the same, except that a text-decode failure is recovered
\* without a diagnostic (the record carries the "binary file" line instead).
C7_Diagnostics ==
    /\ \A i \in 1..Len(records) :
         LET f == records[i].path
         IN  /\ tree.files[f].kind = "unreadable"
                  => StderrNames({"process_error"}, RelPath(f))
             /\ StripFails(f) => StderrNames({"strip_warning"}, RelPath(f))
             /\ tree.files[f].kind = "binary"
                  => ~StderrNames({"process_error", "strip_warning"}, RelPath(f))
    /\ DecodeDiagnosed

C7_Witness ==
    /\ pc = "done"
    /\ tree.files[P_a].kind = "unreadable"
    /\ StripFails(P_dB)
    /\ fail_mkdir = {}
    /\ fail_write = {RelPath(P_a), RelPath(P_dB)}
    /\ Len(stderr) = 4
    /\ fs = EmptyFs

\* --- reverse run ---------------------------------------------------------------
InputLines == splitlines(input)

Reported(kind) == \E i \in 1..Len(stderr) : stderr[i].kind = kind

NothingWritten == fs = EmptyFs /\ dirs = {}

\* C6 as stated: with no line equal to the section header, the reverse run
\* reports the error and creates no file and no directory.
C6_NoEqualLine ==
    (\A i \in 1..Len(InputLines) : InputLines[i] # SECTION_HEADER) =>
        /\ NothingWritten
        /\ pc = "done" => Reported("missing_section")

NoSectionLine == \A i \in 1..Len(InputLines) : strip(InputLines[i]) # SECTION_HEADER

\* C6, amended: with no line that equals the section header once leading and
\* trailing whitespace is stripped, the reverse run reports the error and
\* creates no file and no directory under the target root.
C6_MissingSection ==
    NoSectionLine =>
        /\ NothingWritten
        /\ pc = "done" => Reported("missing_section")

C6_Witness ==
    /\ pc = "done"
    /\ NoSectionLine
    /\ target = "created"
    /\ \E i \in 2..Len(InputLines) :
         InputLines[i - 1] = HeaderLine(<<"a">>) /\ InputLines[i] = <<"x">>
    /\ Reported("missing_section")
    /\ NothingWritten

LacksClosing(line) == StartsWith(line, FILE_HEADER) /\ ~EndsWith(rstrip(line), CLOSING)

\* C4: a scanned line that starts with the file-header prefix but lacks the
\* closing marker is reported on stderr and leaves no path associated.
C4_MalformedReported ==
    pc \in {"scan", "done"} =>
        \A i \in 1..(line_no - 1) :
            LacksClosing(content_lines[i]) =>
                /\ StderrNames({"malformed_header"}, content_lines[i])
                /\ (i = line_no - 1 /\ pc = "scan") => current_path = None

\* C10: every file written and every directory created by the reverse run
\* lies inside the target root.
C10_Confined == \A l \in DOMAIN fs \cup dirs : Inside(l)

\* the text a record's lines make: joined by newlines, one final newline
FileTextOf(lines) ==
    LET t == join(lines)
    IN  IF t = <<>> \/ t[Len(t)] = NL THEN t ELSE t \o <<NL>>

HeaderPath(line) ==
    LET part == SubSeq(line, Len(FILE_HEADER) + 1, Len(line))
    IN  IF Contains(part, CLOSING) THEN strip(rsplit1(part, CLOSING)) ELSE <<>>

Opens(ls, i) == HeaderShaped(ls[i]) /\ HeaderPath(ls[i]) # <<>>

RecordEnd(ls, i) ==
    IF \E j \in (i + 1)..Len(ls) : ReadsAsMarker(ls[j])
    THEN CHOOSE j \in (i + 1)..Len(ls) :
             ReadsAsMarker(ls[j]) /\ \A m \in (i + 1)..(j - 1) : ~ReadsAsMarker(ls[m])
    ELSE Len(ls) + 1

RecordLines(ls, i) == SubSeq(ls, i + 1, RecordEnd(ls, i) - 1)

\* the files are those of the header lines of ls, each holding the lines up
\* to the next header or footer line (the last record of a path wins)
Framed(ls) ==
    /\ DOMAIN fs = {Dest(HeaderPath(ls[i])) : i \in {k \in 1..Len(ls) : Opens(ls, k)}}
    /\ \A i \in 1..Len(ls) :
         (Opens(ls, i) /\ \A j \in (i + 1)..Len(ls) :
                              Opens(ls, j) => HeaderPath(ls[j]) # HeaderPath(ls[i]))
            => fs[Dest(HeaderPath(ls[i]))] = FileTextOf(RecordLines(ls, i))

LinesFrom(k) == SubSeq(InputLines, k, Len(InputLines))

FirstSectionLine ==
    CHOOSE i \in 1..Len(InputLines) :
        /\ strip(InputLines[i]) = SECTION_HEADER
        /\ \A j \in 1..(i - 1) : strip(InputLines[j]) # SECTION_HEADER

\* C9 as stated: every line after the section-header line is scanned, so the
\* files written are the records framed by those lines.
C9_EveryLineAfterSection ==
    (pc = "done" /\ ~NoSectionLine) =>
        LET ls == LinesFrom(FirstSectionLine + 1) IN Framed(ls)

\* C9, amended: the lines up to the section-header line and the one line that
\* follows it are ignored; every later line is scanned.  A header line with
\* a non-empty path flushes the open file and opens a new one, a header line
\* without a path and a footer line only flush, every other line goes to the
\* open file, and a line seen while no file is open is written nowhere.
C9_Framing ==
    (pc = "done" /\ ~NoSectionLine) =>
        LET ls == LinesFrom(FirstSectionLine + 2) IN Framed(ls)

C9_Witness ==
    /\ pc = "done"
    /\ ~NoSectionLine
    /\ FirstSectionLine = 2
    /\ LET ls == LinesFrom(FirstSectionLine + 2)
       IN  /\ Len(ls) = 3
           /\ ls[1] = <<"x">>
           /\ Opens(ls, 2)
           /\ ls[3] = BINARY_FILE
    /\ Cardinality(DOMAIN fs) = 1

\* C3: in a bundle with one corrupted file header, every intact entry is
\* written to its own path with its own content lines, and nothing else is
\* written but, at most, the corrupted entry under its garbled path.
IntactEntries(ls) ==
    {i \in 1..Len(ls) :
        \E q \in 1..Len(EntryPaths) :
            /\ ls[i] = HeaderLine(EntryPaths[q])
            /\ RecordEnd(ls, i) <= Len(ls)
            /\ ls[RecordEnd(ls, i)] = FooterLine(EntryPaths[q])}

EntryDest(ls, i) == TargetLoc(SplitSlash(SubSeq(ls[i], Len(FILE_HEADER) + 1,
                                                 Len(ls[i]) - Len(CLOSING)), <<>>))

C3_CorruptedHeaderResilience ==
    pc = "done" =>
        LET ls == InputLines
            intact == IntactEntries(ls)
        IN  /\ \A i \in intact :
                 /\ EntryDest(ls, i) \in DOMAIN fs
                 /\ fs[EntryDest(ls, i)] = FileTextOf(RecordLines(ls, i))
            /\ \A l \in DOMAIN fs :
                 \/ \E i \in intact : l = EntryDest(ls, i)
                 \/ \E q \in 1..Len(EntryPaths) :
                      l = TargetLoc(SplitSlash(EntryPaths[q] \o <<"~">>, <<>>))

C3_Witness ==
    /\ pc = "done"
    /\ LET ls == InputLines
       IN  /\ Cardinality(IntactEntries(ls)) = 2
           /\ \E i \in 1..Len(ls) : ls[i] = FILE_HEADER \o EntryPaths[2]
           /\ \A i \in IntactEntries(ls) : fs[EntryDest(ls, i)] = <<"x", NL, "x", NL>>
    /\ Cardinality(DOMAIN fs) = 2

====
